---- MODULE Spec2Model ----
(***************************************************************************)
(* Model of mcp_monumenten/server.py: the two tools registered by          *)
(* MonumentenMCP._register_tools, get_verblijfsobject_id and               *)
(* get_monumental_status, run as coroutines on one event loop.             *)
(*                                                                         *)
(* A Python str is a sequence of one-character strings.  An Optional[str]  *)
(* is a sequence of length at most one: None is << >>, and a given string  *)
(* s is << s >>.  A step of the model is the code a coroutine runs between *)
(* two awaits.                                                             *)
(***************************************************************************)
EXTENDS Integers, Sequences, FiniteSets, TLC

VARIABLES pc, tool, args, search_mode, session, sessions, posts,
          resp, outcome, client, lookups

vars == <<pc, tool, args, search_mode, session, sessions, posts,
          resp, outcome, client, lookups>>

\* The invocations the host dispatches.
Procs == 1 .. 2

\* The longest results.bindings array the endpoint answers with.
MaxBindings == 2

----------------------------------------------------------------------------
\* Python values

None == << >>

Some(s) == << s >>

EmptyStr == << >>

Whitespace == {" ", "\t", "\n"}

\* The truth value of an Optional[str]: None and '' are false.
Truthy(o) == o # None /\ Len(o[1]) > 0

RECURSIVE LStrip(_)
LStrip(s) ==
    IF s # << >> /\ Head(s) \in Whitespace THEN LStrip(Tail(s)) ELSE s

RECURSIVE RStrip(_)
RStrip(s) ==
    IF s # << >> /\ s[Len(s)] \in Whitespace
    THEN RStrip(SubSeq(s, 1, Len(s) - 1))
    ELSE s

\* A strip that removes nothing.
StripNothing(s) == s

\* str.strip()
Strip(s) == RStrip(LStrip(s))

----------------------------------------------------------------------------
\* The strings the tools return.  text is the literal (an f-string keeps its
\* placeholders), args the values formatted into it in order, status the HTTP
\* status formatted into it, exc str(e), rows the list given to json.dumps,
\* payload the status client's result given to json.dumps.

Result(text, fargs, status, exc, rows, payload) ==
    [text |-> text, args |-> fargs, status |-> status, exc |-> exc,
     rows |-> rows, payload |-> payload]

Msg(text, fargs) == Result(text, fargs, 0, "", << >>, "")

\* No string: the value of an invocation that has not returned one.
NoValue == Msg("", << >>)

ConflictMsg ==
    Msg("Error: Provide either postal_code OR (street + city), not both.", << >>)

EmptyPostalMsg ==
    Msg("Error: postal_code cannot be empty when using postal code search.", << >>)

EmptyAddressMsg ==
    Msg("Error: street and city cannot be empty when using address search.", << >>)

MissingMsg ==
    Msg("Error: Provide either (postal_code + house_number) OR (street + house_number + city).", << >>)

NotFoundPostalText ==
    "No verblijfsobject found for postal code {postal_code}, house number {house_number}"

NotFoundAddressText ==
    "No verblijfsobject found for address: {street} {house_number}, {city}. Postal code + house number usually works better."

UniqueText == "{json.dumps(full, ensure_ascii=False)}"

AmbiguousText ==
    "Ambiguous address: multiple results found: {json.dumps(full, ensure_ascii=False)}"

HttpErrorText == "Error querying Kadaster endpoint: HTTP {response.status}"

ExceptionText == "Error executing SPARQL query: {str(e)}"

StatusText ==
    "{json.dumps(result, indent=2)}. Always mention the source for the Rijksmonument status if it is a Rijksmonument. RCE = Rijksdienst voor het Cultureel Erfgoed."

----------------------------------------------------------------------------
\* Validation and mode selection

\* A validation without the conflicting-parameters rule.
ValidateWithoutConflictRule(a) ==
    IF Truthy(a.postal_code)
    THEN IF Strip(a.postal_code[1]) = EmptyStr
         THEN [ok |-> FALSE, mode |-> "", error |-> EmptyPostalMsg]
         ELSE [ok |-> TRUE, mode |-> "postal_code", error |-> NoValue]
    ELSE IF Truthy(a.street) /\ Truthy(a.city)
    THEN IF Strip(a.street[1]) = EmptyStr \/ Strip(a.city[1]) = EmptyStr
         THEN [ok |-> FALSE, mode |-> "", error |-> EmptyAddressMsg]
         ELSE [ok |-> TRUE, mode |-> "address", error |-> NoValue]
    ELSE [ok |-> FALSE, mode |-> "", error |-> MissingMsg]

\* The outcome of the validation: the search mode, or the error returned.
Validate(a) ==
    IF Truthy(a.postal_code) /\ (Truthy(a.street) \/ Truthy(a.city))
    THEN [ok |-> FALSE, mode |-> "", error |-> ConflictMsg]
    ELSE IF Truthy(a.postal_code)
    THEN IF Strip(a.postal_code[1]) = EmptyStr
         THEN [ok |-> FALSE, mode |-> "", error |-> EmptyPostalMsg]
         ELSE [ok |-> TRUE, mode |-> "postal_code", error |-> NoValue]
    ELSE IF Truthy(a.street) /\ Truthy(a.city)
    THEN IF Strip(a.street[1]) = EmptyStr \/ Strip(a.city[1]) = EmptyStr
         THEN [ok |-> FALSE, mode |-> "", error |-> EmptyAddressMsg]
         ELSE [ok |-> TRUE, mode |-> "address", error |-> NoValue]
    ELSE [ok |-> FALSE, mode |-> "", error |-> MissingMsg]

----------------------------------------------------------------------------
\* Query construction.  A fragment is the literal with the value formatted
\* into it; '' is the literal "" with no value.

Fragment(text, fargs) == [text |-> text, args |-> fargs]

EmptyFragment == Fragment("", << >>)

LetterClauseText == "?adres imx:huisletter \"{house_letter}\" ."

SuffixClauseText == "?adres imx:huisnummertoevoeging \"{house_suffix}\" ."

LetterFilterText == "FILTER NOT EXISTS { ?adres imx:huisletter ?_hl . }"

SuffixFilterText ==
    "FILTER NOT EXISTS { ?adres imx:huisnummertoevoeging ?_hs . FILTER(?_hs != \"H\") }"

LetterBindText == "OPTIONAL { ?adres imx:huisletter ?huisletter . }"

SuffixBindText ==
    "OPTIONAL { ?adres imx:huisnummertoevoeging ?huisnummertoevoeging . }"

\* The conditional parts of the postal-code branch.
PostalParts(a) ==
    [letter_clause |-> IF Truthy(a.house_letter)
                       THEN Fragment(LetterClauseText, a.house_letter)
                       ELSE EmptyFragment,
     suffix_clause |-> IF Truthy(a.house_suffix)
                       THEN Fragment(SuffixClauseText, a.house_suffix)
                       ELSE EmptyFragment,
     letter_filter |-> IF Truthy(a.house_letter)
                       THEN EmptyFragment
                       ELSE Fragment(LetterFilterText, << >>),
     suffix_filter |-> IF Truthy(a.house_suffix)
                       THEN EmptyFragment
                       ELSE Fragment(SuffixFilterText, << >>),
     letter_bind |-> Fragment(LetterBindText, << >>),
     suffix_bind |-> Fragment(SuffixBindText, << >>)]

\* An address branch whose suffix filter lacks the exception for "H".
AddressPartsWithoutSentinel(a) ==
    [PostalParts(a) EXCEPT !.suffix_filter =
        IF Truthy(a.house_suffix)
        THEN EmptyFragment
        ELSE Fragment("FILTER NOT EXISTS { ?adres imx:huisnummertoevoeging ?_hs . }", << >>)]

\* The conditional parts of the address branch.
AddressParts(a) ==
    [letter_clause |-> IF Truthy(a.house_letter)
                       THEN Fragment(LetterClauseText, a.house_letter)
                       ELSE EmptyFragment,
     suffix_clause |-> IF Truthy(a.house_suffix)
                       THEN Fragment(SuffixClauseText, a.house_suffix)
                       ELSE EmptyFragment,
     letter_filter |-> IF Truthy(a.house_letter)
                       THEN EmptyFragment
                       ELSE Fragment(LetterFilterText, << >>),
     suffix_filter |-> IF Truthy(a.house_suffix)
                       THEN EmptyFragment
                       ELSE Fragment(SuffixFilterText, << >>),
     letter_bind |-> Fragment(LetterBindText, << >>),
     suffix_bind |-> Fragment(SuffixBindText, << >>)]

\* sparql_query: the template of the branch, the values of its match triples
\* in the order of the template, and the parts spliced into it.
SparqlQuery(a, mode) ==
    IF mode = "postal_code"
    THEN [template |-> "postal_code",
          match |-> << a.postal_code[1], a.house_number >>,
          parts |-> PostalParts(a)]
    ELSE [template |-> "address",
          match |-> << a.street[1], a.house_number, a.city[1] >>,
          parts |-> AddressParts(a)]

EndpointUrl == "https://data.kkg.kadaster.nl/service/sparql"

----------------------------------------------------------------------------
\* Response classification

ResultVars ==
    {"identificatie", "postcode", "huisnummer", "huisletter",
     "huisnummertoevoeging", "straatnaam", "plaatsnaam"}

\* get_val: b.get(k, {}).get('value'); a binding is a function from the
\* variables it binds to their cells.
get_val(b, k) == IF k \in DOMAIN b THEN Some(b[k].value) ELSE None

\* A row that leaves the city out.
FullRowWithoutCity(b) ==
    [bag_verblijfsobject_id |-> get_val(b, "identificatie"),
     postcode |-> get_val(b, "postcode"),
     huisnummer |-> get_val(b, "huisnummer"),
     huisletter |-> get_val(b, "huisletter"),
     huisnummertoevoeging |-> get_val(b, "huisnummertoevoeging"),
     straatnaam |-> get_val(b, "straatnaam")]

FullRow(b) ==
    [bag_verblijfsobject_id |-> get_val(b, "identificatie"),
     postcode |-> get_val(b, "postcode"),
     huisnummer |-> get_val(b, "huisnummer"),
     huisletter |-> get_val(b, "huisletter"),
     huisnummertoevoeging |-> get_val(b, "huisnummertoevoeging"),
     straatnaam |-> get_val(b, "straatnaam"),
     plaatsnaam |-> get_val(b, "plaatsnaam")]

Full(bindings) == [n \in 1 .. Len(bindings) |-> FullRow(bindings[n])]

\* A test for None instead of the truth value.
HasIdNotNone(item) == item.bag_verblijfsobject_id # None

HasId(item) == Truthy(item.bag_verblijfsobject_id)

Ids(full) == SelectSeq(full, HasId)

NotFound(a, mode) ==
    IF mode = "postal_code"
    THEN Msg(NotFoundPostalText, << a.postal_code[1], a.house_number >>)
    ELSE Msg(NotFoundAddressText, << a.street[1], a.house_number, a.city[1] >>)

\* json.dumps(full, ensure_ascii=False): the array of the rows, in order.
JsonRows(text, full) == Result(text, << >>, 0, "", full, "")

\* result.get('results', {}).get('bindings', [])
BindingsOf(body) == IF body.has_results THEN body.bindings ELSE << >>

\* The string returned for a parsed HTTP 200 body.
Classify(a, mode, bindings) ==
    IF bindings # << >>
    THEN LET full == Full(bindings)
             ids == Ids(full)
         IN  IF ids = << >> THEN NotFound(a, mode)
             ELSE IF Len(ids) = 1 THEN JsonRows(UniqueText, full)
             ELSE JsonRows(AmbiguousText, full)
    ELSE NotFound(a, mode)

HttpError(status) == Result(HttpErrorText, << >>, status, "", << >>, "")

ExceptionMsg(text) == Result(ExceptionText, << >>, 0, text, << >>, "")

StatusMsg(result) == Result(StatusText, << >>, 0, "", << >>, result)

----------------------------------------------------------------------------
\* Exceptions: the class, which a handler tests, and str(e).

Exc(cls, text) == [cls |-> cls, text |-> text]

NoExc == Exc("", "")

\* asyncio.CancelledError derives from BaseException, not from Exception.
CancelledError == Exc("CancelledError", "")

\* The classes deriving from Exception that the transport, the parser and
\* the status client raise.
ExceptionClasses ==
    {"ClientConnectorError", "TimeoutError", "JSONDecodeError", "RuntimeError"}

\* A handler for connection errors only: except aiohttp.ClientError.
CaughtClientErrorOnly(e) == e.cls = "ClientConnectorError"

\* except Exception as e
Caught(e) == e.cls \in ExceptionClasses

\* How an invocation ended: a returned string, a raised exception, or
\* nothing yet.
Returned(value) == [kind |-> "returned", value |-> value, exc |-> NoExc]

Raised(e) == [kind |-> "raised", value |-> NoValue, exc |-> e]

Pending == [kind |-> "none", value |-> NoValue, exc |-> NoExc]

\* The try ... except Exception around the two async with blocks.
TryExcept(e) == IF Caught(e) THEN Returned(ExceptionMsg(e.text)) ELSE Raised(e)

\* A local handler that turns the exception into a string.
CatchLocally(e) == Returned(ExceptionMsg(e.text))

\* get_monumental_status has no handler: what the client raises leaves it.
Propagate(e) == Raised(e)

\* aiohttp.ClientSession(): a session of this invocation, opened.
OpenSession(ss, i) == Append(ss, [owner |-> i, open |-> TRUE])

\* An exit that leaves the session open.
LeaveSessionOpen(ss, s) == ss

\* An exit that closes every session, as of one session shared by all.
CloseEverySession(ss, s) == [n \in 1 .. Len(ss) |-> [ss[n] EXCEPT !.open = FALSE]]

\* ClientSession.__aexit__: the session of the async with block is closed.
CloseSession(ss, s) == [ss EXCEPT ![s].open = FALSE]

\* session.post(endpoint_url, headers=headers, data=data)
Post(i, s, query) ==
    [by |-> i, session |-> s, url |-> EndpointUrl,
     accept |-> "application/sparql-results+json",
     content_type |-> "application/x-www-form-urlencoded",
     query |-> query]

\* A request sent again after it was sent.
IssueAndRetry(ps, p) == Append(Append(ps, p), p)

\* The request goes out once.
Issue(ps, p) == Append(ps, p)

\* client.process_from_list([bag_verblijfsobject_id])
LookupCall(i, id) == [by |-> i, ids |-> << id >>]

\* MonumentenClient.__aexit__
ReleaseClient(c, i) == [c EXCEPT ![i] = "released"]

NoArgs ==
    [house_number |-> EmptyStr, postal_code |-> None, street |-> None,
     city |-> None, house_letter |-> None, house_suffix |-> None,
     bag_verblijfsobject_id |-> EmptyStr]

NoBody == [valid |-> FALSE, error |-> NoExc, has_results |-> FALSE, bindings |-> << >>]

NoResp == [exc |-> NoExc, status |-> 0, body |-> NoBody, result |-> ""]

----------------------------------------------------------------------------
\* The state machine

Init ==
    /\ pc = [i \in Procs |-> "idle"]
    /\ tool = [i \in Procs |-> ""]
    /\ args = [i \in Procs |-> NoArgs]
    /\ search_mode = [i \in Procs |-> ""]
    /\ session = [i \in Procs |-> 0]
    /\ sessions = << >>
    /\ posts = << >>
    /\ resp = [i \in Procs |-> NoResp]
    /\ outcome = [i \in Procs |-> Pending]
    /\ client = [i \in Procs |-> "none"]
    /\ lookups = << >>

\* get_verblijfsobject_id up to its first await: the validation, the query,
\* the session and the POST.
get_verblijfsobject_id(i, Inputs) ==
    /\ pc[i] = "idle"
    /\ \E a \in Inputs :
         LET v == Validate(a)
             s == Len(sessions) + 1
         IN  /\ tool' = [tool EXCEPT ![i] = "get_verblijfsobject_id"]
             /\ args' = [args EXCEPT ![i] = a]
             /\ IF v.ok
                THEN /\ search_mode' = [search_mode EXCEPT ![i] = v.mode]
                     /\ sessions' = OpenSession(sessions, i)
                     /\ session' = [session EXCEPT ![i] = s]
                     /\ posts' = Issue(posts, Post(i, s, SparqlQuery(a, v.mode)))
                     /\ pc' = [pc EXCEPT ![i] = "post"]
                     /\ UNCHANGED outcome
                ELSE /\ outcome' = [outcome EXCEPT ![i] = Returned(v.error)]
                     /\ pc' = [pc EXCEPT ![i] = "done"]
                     /\ UNCHANGED <<search_mode, sessions, session, posts>>
    /\ UNCHANGED <<resp, client, lookups>>

\* The POST ends: with an exception, with a status other than 200, or with
\* status 200, and then the body is awaited.
PostCompletes(i, Responses) ==
    /\ pc[i] = "post"
    /\ \E r \in Responses :
         /\ resp' = [resp EXCEPT ![i] = r]
         /\ IF r.exc # NoExc
            THEN /\ sessions' = CloseSession(sessions, session[i])
                 /\ outcome' = [outcome EXCEPT ![i] = TryExcept(r.exc)]
                 /\ pc' = [pc EXCEPT ![i] = "done"]
            ELSE IF r.status = 200
            THEN /\ pc' = [pc EXCEPT ![i] = "json"]
                 /\ UNCHANGED <<sessions, outcome>>
            ELSE /\ sessions' = CloseSession(sessions, session[i])
                 /\ outcome' = [outcome EXCEPT ![i] = Returned(HttpError(r.status))]
                 /\ pc' = [pc EXCEPT ![i] = "done"]
    /\ UNCHANGED <<tool, args, search_mode, session, posts, client, lookups>>

\* await response.json() ends: the body is parsed and classified, or the
\* read or the parse raises.
JsonCompletes(i) ==
    /\ pc[i] = "json"
    /\ LET body == resp[i].body
       IN  outcome' = [outcome EXCEPT ![i] =
                IF body.valid
                THEN Returned(Classify(args[i], search_mode[i], BindingsOf(body)))
                ELSE TryExcept(body.error)]
    /\ sessions' = CloseSession(sessions, session[i])
    /\ pc' = [pc EXCEPT ![i] = "done"]
    /\ UNCHANGED <<tool, args, search_mode, session, posts, resp, client, lookups>>

\* get_monumental_status up to its await: the client is entered and the
\* lookup called.
get_monumental_status(i, Identifiers) ==
    /\ pc[i] = "idle"
    /\ \E id \in Identifiers :
         /\ args' = [args EXCEPT ![i] = [NoArgs EXCEPT !.bag_verblijfsobject_id = id]]
         /\ lookups' = Append(lookups, LookupCall(i, id))
    /\ tool' = [tool EXCEPT ![i] = "get_monumental_status"]
    /\ client' = [client EXCEPT ![i] = "open"]
    /\ pc' = [pc EXCEPT ![i] = "lookup"]
    /\ UNCHANGED <<search_mode, session, sessions, posts, resp, outcome>>

\* await client.process_from_list(...) ends: with a result, which is
\* returned, or with an exception, which nothing catches.
LookupCompletes(i, Lookups) ==
    /\ pc[i] = "lookup"
    /\ \E r \in Lookups :
         /\ resp' = [resp EXCEPT ![i] = r]
         /\ outcome' = [outcome EXCEPT ![i] =
                IF r.exc # NoExc THEN Propagate(r.exc) ELSE Returned(StatusMsg(r.result))]
    /\ client' = ReleaseClient(client, i)
    /\ pc' = [pc EXCEPT ![i] = "done"]
    /\ UNCHANGED <<tool, args, search_mode, session, sessions, posts, lookups>>

\* The host cancels an invocation suspended at an await: CancelledError is
\* raised there and leaves through the async with blocks.
Cancel(i) ==
    /\ pc[i] \in {"post", "json", "lookup"}
    /\ IF pc[i] = "lookup"
       THEN /\ client' = ReleaseClient(client, i)
            /\ outcome' = [outcome EXCEPT ![i] = Propagate(CancelledError)]
            /\ UNCHANGED sessions
       ELSE /\ sessions' = CloseSession(sessions, session[i])
            /\ outcome' = [outcome EXCEPT ![i] = TryExcept(CancelledError)]
            /\ UNCHANGED client
    /\ pc' = [pc EXCEPT ![i] = "done"]
    /\ UNCHANGED <<tool, args, search_mode, session, posts, resp, lookups>>

----------------------------------------------------------------------------
\* The inputs and the endpoint's answers the model draws from

HouseNumber == << "3", "0" >>

PostalCode == << "3", "0", "1", "1", "A", "B" >>

Blank == << " " >>

OptionalStrings(s) == {None, Some(EmptyStr), Some(Blank), Some(s)}

Refinements(s) == {None, Some(EmptyStr), Some(s)}

AddressQueries ==
    [house_number : {HouseNumber},
     postal_code : OptionalStrings(PostalCode),
     street : OptionalStrings(<< "D", "a", "m" >>),
     city : OptionalStrings(<< "E", "d", "e" >>),
     house_letter : Refinements(<< "A" >>),
     house_suffix : Refinements(<< "2" >>),
     bag_verblijfsobject_id : {EmptyStr}]

Cell(s) == [type |-> "literal", value |-> s]

\* A binding of the result set: identificatie and postcode bound or not,
\* huisnummer bound.
Binding(id, postcode) ==
    [k \in {"huisnummer"}
           \cup (IF id = None THEN {} ELSE {"identificatie"})
           \cup (IF postcode = None THEN {} ELSE {"postcode"}) |->
        IF k = "identificatie" THEN Cell(id[1])
        ELSE IF k = "postcode" THEN Cell(postcode[1])
        ELSE Cell(HouseNumber)]

Identifications == {None, Some(EmptyStr), Some(<< "1" >>), Some(<< "2" >>)}

Bindings ==
    {Binding(id, p) : id \in Identifications, p \in {None, Some(PostalCode)}}

BindingLists == UNION {[1 .. n -> Bindings] : n \in 0 .. MaxBindings}

Body(bindings) ==
    [valid |-> TRUE, error |-> NoExc, has_results |-> TRUE, bindings |-> bindings]

Bodies ==
    {Body(bs) : bs \in BindingLists}
    \cup {[NoBody EXCEPT !.valid = TRUE]}
    \cup {[NoBody EXCEPT !.error = Exc("JSONDecodeError", "Expecting value: line 1 column 1 (char 0)")]}

Responses ==
    {[NoResp EXCEPT !.exc = e] :
        e \in {Exc("ClientConnectorError", "Cannot connect to host data.kkg.kadaster.nl:443"),
               Exc("TimeoutError", "")}}
    \cup {[NoResp EXCEPT !.status = st] : st \in {404, 500}}
    \cup {[NoResp EXCEPT !.status = 200, !.body = b] : b \in Bodies}

Identifiers == {<< "0", "5", "1", "8" >>, << "0", "5", "9", "9" >>}

Lookups ==
    {[NoResp EXCEPT !.result = r] : r \in {"[]", "[{\"bag_verblijfsobject_id\": ...}]"}}
    \cup {[NoResp EXCEPT !.exc = Exc("RuntimeError", "lookup failed")]}

\* One invocation, every input and every answer.
Next ==
    \/ get_verblijfsobject_id(1, AddressQueries)
    \/ PostCompletes(1, Responses)
    \/ JsonCompletes(1)
    \/ get_monumental_status(1, Identifiers)
    \/ LookupCompletes(1, Lookups)
    \/ Cancel(1)

Spec == Init /\ [][Next]_vars

\* Interleaved invocations, a few inputs and answers each.
FewQueries ==
    {a \in AddressQueries :
        /\ a.house_letter = None /\ a.house_suffix = None
        /\ \/ a.postal_code = Some(PostalCode) /\ a.street = None /\ a.city \in {None, Some(Blank)}
           \/ a.postal_code = None /\ a.street # None /\ a.street = a.city}

FewResponses ==
    {r \in Responses :
        /\ r.exc.cls # "TimeoutError"
        /\ r.status # 404
        /\ r.body.valid =>
             /\ r.body.has_results
             /\ \A n \in 1 .. Len(r.body.bindings) :
                    /\ "postcode" \in DOMAIN r.body.bindings[n]
                    /\ "identificatie" \in DOMAIN r.body.bindings[n]
                    /\ r.body.bindings[n]["identificatie"].value = << "1" >>}

NextInterleaved ==
    \E i \in Procs :
        \/ get_verblijfsobject_id(i, FewQueries)
        \/ PostCompletes(i, FewResponses)
        \/ JsonCompletes(i)
        \/ get_monumental_status(i, {<< "0", "5", "1", "8" >>})
        \/ LookupCompletes(i, Lookups)
        \/ Cancel(i)

SpecInterleaved == Init /\ [][NextInterleaved]_vars

----------------------------------------------------------------------------
\* Properties

Resolver(i) == tool[i] = "get_verblijfsobject_id"

\* A field is present when it is given and not the empty string.
Present(o) == o # None /\ o # Some(EmptyStr)

\* A present field that holds nothing but whitespace.
WhitespaceOnly(o) ==
    Present(o) /\ \A n \in 1 .. Len(o[1]) : o[1][n] \in Whitespace

ValidationErrors == {ConflictMsg, EmptyPostalMsg, EmptyAddressMsg, MissingMsg}

\* The invocation left at the validation.
FailedValidation(i) ==
    outcome[i].kind = "returned" /\ outcome[i].value \in ValidationErrors

\* The invocation passed the validation in the given mode.
Selected(i, mode) == search_mode[i] = mode /\ ~FailedValidation(i)

PostsBy(i) == {n \in 1 .. Len(posts) : posts[n].by = i}

SessionsOf(i) == {s \in 1 .. Len(sessions) : sessions[s].owner = i}

\* C1 as stated: four ordered rules, first match wins: postal_code with
\* street or city gives the conflicting-parameters error; else postal_code
\* gives mode postal_code; else street and city give mode address; else the
\* missing-parameters error.
C1_FourRulesAsStated ==
    \A i \in Procs : Resolver(i) =>
        LET a == args[i]
        IN  IF Present(a.postal_code) /\ (Present(a.street) \/ Present(a.city))
            THEN outcome[i] = Returned(ConflictMsg) /\ search_mode[i] = ""
            ELSE IF Present(a.postal_code)
            THEN Selected(i, "postal_code")
            ELSE IF Present(a.street) /\ Present(a.city)
            THEN Selected(i, "address")
            ELSE outcome[i] = Returned(MissingMsg) /\ search_mode[i] = ""

\* C1 amended: the same four ordered rules, where rule 2 gives the
\* empty-postal-code error instead of mode postal_code when postal_code is
\* whitespace-only, and rule 3 gives the empty-street-and-city error instead
\* of mode address when street or city is whitespace-only.  The mode or the
\* error is a function of the inputs.
C1_ModeSelection ==
    \A i \in Procs : Resolver(i) =>
        LET a == args[i]
        IN  IF Present(a.postal_code) /\ (Present(a.street) \/ Present(a.city))
            THEN outcome[i] = Returned(ConflictMsg) /\ search_mode[i] = ""
            ELSE IF Present(a.postal_code)
            THEN IF WhitespaceOnly(a.postal_code)
                 THEN outcome[i] = Returned(EmptyPostalMsg) /\ search_mode[i] = ""
                 ELSE Selected(i, "postal_code")
            ELSE IF Present(a.street) /\ Present(a.city)
            THEN IF WhitespaceOnly(a.street) \/ WhitespaceOnly(a.city)
                 THEN outcome[i] = Returned(EmptyAddressMsg) /\ search_mode[i] = ""
                 ELSE Selected(i, "address")
            ELSE outcome[i] = Returned(MissingMsg) /\ search_mode[i] = ""

\* A whitespace-only street with a city and no postal code was refused.
C1_Witness ==
    /\ Resolver(1)
    /\ args[1].postal_code = None
    /\ args[1].street = Some(Blank)
    /\ args[1].city = Some(<< "E", "d", "e" >>)
    /\ outcome[1] = Returned(EmptyAddressMsg)

\* C2 as stated: a whitespace-only postal_code gives the empty-postal-code
\* error whatever street, city, house_letter and house_suffix are.
C2_WhitespacePostalAsStated ==
    \A i \in Procs :
        Resolver(i) /\ WhitespaceOnly(args[i].postal_code) =>
            outcome[i] = Returned(EmptyPostalMsg)

\* C2 amended: a whitespace-only postal_code gives the empty-postal-code
\* error, whatever house_letter and house_suffix are, when street and city
\* are both absent or empty; with street or city present it gives the
\* conflicting-parameters error.
C2_WhitespacePostal ==
    \A i \in Procs :
        Resolver(i) /\ WhitespaceOnly(args[i].postal_code) =>
            outcome[i] =
                IF Present(args[i].street) \/ Present(args[i].city)
                THEN Returned(ConflictMsg)
                ELSE Returned(EmptyPostalMsg)

\* A whitespace-only postal code alone, with a house letter, was refused.
C2_Witness ==
    /\ Resolver(1)
    /\ args[1].postal_code = Some(Blank)
    /\ args[1].street = None /\ args[1].city = Some(EmptyStr)
    /\ args[1].house_letter = Some(<< "A" >>)
    /\ outcome[1] = Returned(EmptyPostalMsg)

\* C3: an invocation that fails the validation issues no POST and opens no
\* session; one that passes issues exactly one POST, to the fixed endpoint
\* in its own session; no invocation issues more than one.
C3_PostsPerInvocation ==
    \A i \in Procs : Resolver(i) =>
        /\ Cardinality(PostsBy(i)) <= 1
        /\ FailedValidation(i) =>
             PostsBy(i) = {} /\ SessionsOf(i) = {} /\ session[i] = 0
        /\ ~FailedValidation(i) =>
             /\ Cardinality(PostsBy(i)) = 1
             /\ \A n \in PostsBy(i) :
                    posts[n].url = EndpointUrl /\ posts[n].session \in SessionsOf(i)

\* A validated invocation ran to its end on an HTTP 200 answer.
C3_Witness ==
    /\ Resolver(1) /\ pc[1] = "done"
    /\ resp[1].status = 200 /\ outcome[1].kind = "returned"
    /\ Cardinality(PostsBy(1)) = 1

\* The invocation read and parsed an HTTP 200 body and returned.
Classified(i) ==
    /\ Resolver(i) /\ pc[i] = "done" /\ outcome[i].kind = "returned"
    /\ resp[i].exc = NoExc /\ resp[i].status = 200 /\ resp[i].body.valid

\* The bindings of the answer: none when the body has no results.bindings.
Answered(i) ==
    IF resp[i].body.has_results THEN resp[i].body.bindings ELSE << >>

\* The bindings that carry an identifier that is not null.
NonNull(bs) == {n \in 1 .. Len(bs) : "identificatie" \in DOMAIN bs[n]}

\* The bindings that carry an identifier that is neither null nor empty.
NonEmpty(bs) == {n \in NonNull(bs) : bs[n]["identificatie"].value # EmptyStr}

\* The not-found message of the invocation's mode, citing its inputs.
IsNotFound(i) ==
    LET v == outcome[i].value
        a == args[i]
    IN  /\ v.rows = << >>
        /\ IF Present(a.postal_code)
           THEN /\ v.text = NotFoundPostalText
                /\ v.args = << a.postal_code[1], a.house_number >>
           ELSE /\ v.text = NotFoundAddressText
                /\ v.args = << a.street[1], a.house_number, a.city[1] >>

\* The result classified by a count n of the answer's bindings.
ClassifiedBy(i, n) ==
    LET v == outcome[i].value
    IN  /\ n = 0 => IsNotFound(i)
        /\ n = 1 => v.text = UniqueText /\ Len(v.rows) = Len(Answered(i))
        /\ n > 1 => v.text = AmbiguousText /\ Len(v.rows) = Len(Answered(i))

SevenFields ==
    {"bag_verblijfsobject_id", "postcode", "huisnummer", "huisletter",
     "huisnummertoevoeging", "straatnaam", "plaatsnaam"}

\* The variable of the result set that a field of a row mirrors.
Mirrored(f) == IF f = "bag_verblijfsobject_id" THEN "identificatie" ELSE f

\* The row mirrors the binding: each field holds the value of its variable,
\* or null when the binding does not bind it.
Mirrors(row, b) ==
    /\ DOMAIN row = SevenFields
    /\ \A f \in SevenFields :
          row[f] = IF Mirrored(f) \in DOMAIN b
                   THEN Some(b[Mirrored(f)].value)
                   ELSE None

C6_FailuresReturnStrings ==
    \A i \in Procs :
        Resolver(i) /\ pc[i] = "done" /\ outcome[i] # Raised(CancelledError) =>
            LET v == outcome[i].value
            IN  /\ outcome[i].kind = "returned"
                /\ v.text # ""
                /\ resp[i].exc # NoExc =>
                      v.text = ExceptionText /\ v.exc = resp[i].exc.text
                /\ resp[i].exc = NoExc /\ resp[i].status \notin {0, 200} =>
                      v.text = HttpErrorText /\ v.status = resp[i].status
                /\ resp[i].status = 200 /\ ~resp[i].body.valid =>
                      v.text = ExceptionText /\ v.exc = resp[i].body.error.text

\* A body that could not be parsed ended in the error string.
C6_Witness ==
    /\ Resolver(1) /\ pc[1] = "done"
    /\ resp[1].status = 200 /\ resp[1].body.error.cls = "JSONDecodeError"
    /\ outcome[1] = Returned(ExceptionMsg(resp[1].body.error.text))

Suspended(i) == pc[i] \in {"post", "json"}

\* C7: an invocation that has returned owns no open session, whether it ended
\* in success, in a status other than 200, in an exception or in a
\* cancellation; while it is suspended its session is its own and open; and
\* every POST went out on a session of the invocation that issued it.
C7_SessionsClosedOnReturn ==
    /\ \A i \in Procs :
          /\ pc[i] = "done" => \A s \in SessionsOf(i) : ~sessions[s].open
          /\ Suspended(i) => session[i] \in SessionsOf(i) /\ sessions[session[i]].open
          /\ Cardinality(SessionsOf(i)) <= 1
    /\ \A n \in 1 .. Len(posts) : sessions[posts[n].session].owner = posts[n].by

\* Two invocations returned, one on an exception and one on a result, each
\* with its own session closed.
C7_Witness ==
    /\ \A i \in Procs : Resolver(i) /\ pc[i] = "done" /\ SessionsOf(i) # {}
    /\ resp[1].exc # NoExc
    /\ outcome[2].value.text = UniqueText
    /\ \A s \in 1 .. Len(sessions) : ~sessions[s].open

Status(i) == tool[i] = "get_monumental_status"

LookupsBy(i) == {n \in 1 .. Len(lookups) : lookups[n].by = i}

\* C8: get_monumental_status holds the client open while the lookup runs and
\* has released it when it is done, on a result and on an exception; the
\* lookup is called once, with the sequence of exactly the given identifier;
\* an exception of the client leaves the tool as raised, with no string.
C8_StatusAdapter ==
    \A i \in Procs : Status(i) =>
        /\ Cardinality(LookupsBy(i)) = 1
        /\ \A n \in LookupsBy(i) :
              lookups[n].ids = << args[i].bag_verblijfsobject_id >>
        /\ pc[i] = "lookup" => client[i] = "open"
        /\ pc[i] = "done" =>
              /\ client[i] = "released"
              /\ resp[i].exc # NoExc =>
                    /\ outcome[i].kind = "raised"
                    /\ outcome[i].exc = resp[i].exc
                    /\ outcome[i].value = NoValue
              /\ resp[i].exc = NoExc /\ outcome[i] # Raised(CancelledError) =>
                    /\ outcome[i].kind = "returned"
                    /\ outcome[i].value.text = StatusText
                    /\ outcome[i].value.payload = resp[i].result

\* The client raised, was released, and the exception left the tool.
C8_Witness ==
    /\ Status(1) /\ pc[1] = "done"
    /\ resp[1].exc = Exc("RuntimeError", "lookup failed")
    /\ outcome[1] = Raised(resp[1].exc)
    /\ client[1] = "released"

\* What an invocation has of its own.
Own(i) ==
    << pc[i], tool[i], args[i], search_mode[i], session[i], resp[i],
       outcome[i], client[i],
       [s \in SessionsOf(i) |-> sessions[s]],
       [n \in PostsBy(i) |-> posts[n]],
       [n \in LookupsBy(i) |-> lookups[n]] >>

\* C9: a step of one invocation, its failure and its cancellation included,
\* changes nothing another invocation has: not its position, its result, its
\* session or its client; an invocation can always go on, whatever the
\* others do; and two invocations of the same tool with the same inputs and
\* the same answer return the same string.
C9_NoInterference ==
    /\ [][\A i \in Procs :
             pc'[i] # pc[i] => \A j \in Procs \ {i} : Own(j)' = Own(j)]_vars
    /\ [](\A i \in Procs :
             /\ pc[i] = "post" => ENABLED PostCompletes(i, FewResponses)
             /\ pc[i] = "json" => ENABLED JsonCompletes(i)
             /\ pc[i] = "lookup" => ENABLED LookupCompletes(i, Lookups)
             /\ pc[i] = "idle" => ENABLED get_verblijfsobject_id(i, FewQueries))
    /\ [](\A i, j \in Procs :
             /\ pc[i] = "done" /\ pc[j] = "done"
             /\ tool[i] = tool[j] /\ args[i] = args[j] /\ resp[i] = resp[j]
             /\ outcome[i].kind = "returned" /\ outcome[j].kind = "returned"
             => outcome[i] = outcome[j])

\* One invocation was cancelled while the other was suspended; the other
\* then returned its result.
C9_Witness ==
    /\ outcome[1] = Raised(CancelledError)
    /\ Resolver(2) /\ pc[2] = "done"
    /\ outcome[2].value.text = AmbiguousText
    /\ Len(posts) = 2 /\ posts[1].by = 2 /\ posts[2].by = 1
    /\ ~sessions[session[1]].open /\ ~sessions[session[2]].open

\* The four conditional fragments of a query, from the refinements given.
ExpectedParts(a) ==
    [letter_clause |->
        IF Present(a.house_letter)
        THEN Fragment("?adres imx:huisletter \"{house_letter}\" .", a.house_letter)
        ELSE EmptyFragment,
     letter_filter |->
        IF Present(a.house_letter)
        THEN EmptyFragment
        ELSE Fragment("FILTER NOT EXISTS { ?adres imx:huisletter ?_hl . }", << >>),
     suffix_clause |->
        IF Present(a.house_suffix)
        THEN Fragment("?adres imx:huisnummertoevoeging \"{house_suffix}\" .", a.house_suffix)
        ELSE EmptyFragment,
     suffix_filter |->
        IF Present(a.house_suffix)
        THEN EmptyFragment
        ELSE Fragment("FILTER NOT EXISTS { ?adres imx:huisnummertoevoeging ?_hs . FILTER(?_hs != \"H\") }", << >>)]

\* C10: in both modes the query posted holds, for house_letter and
\* independently for house_suffix, the exact-match clause when the field is
\* given and the absence filter when it is not, never both and never
\* neither; only the absence filter of house_suffix excepts "H"; the
\* fragments are those of the other mode for the same refinements.
C10_ClauseOrFilter ==
    \A n \in 1 .. Len(posts) :
        LET q == posts[n].query.parts
            e == ExpectedParts(args[posts[n].by])
        IN  /\ posts[n].query.template \in {"postal_code", "address"}
            /\ (q.letter_clause = EmptyFragment) # (q.letter_filter = EmptyFragment)
            /\ (q.suffix_clause = EmptyFragment) # (q.suffix_filter = EmptyFragment)
            /\ \A f \in DOMAIN e : q[f] = e[f]

\* An address-mode query with a house letter and no suffix was posted.
C10_Witness ==
    /\ Len(posts) = 1
    /\ posts[1].query.template = "address"
    /\ posts[1].query.parts.letter_clause = Fragment(LetterClauseText, Some(<< "A" >>))
    /\ posts[1].query.parts.suffix_clause = EmptyFragment
    /\ posts[1].query.parts.suffix_filter # EmptyFragment

====
